---- MODULE Spec2Model ----
(***************************************************************************)
(* Expiration engine of the expire-tabs extension: the activity store      *)
(* (tab_<id>), the protection store (protected_<id>), the history list     *)
(* (closedTabs), the periodic sweep checkTabs and the history operations.  *)
(*                                                                         *)
(* checkTabs is an async function: every "await" is a point where other    *)
(* handlers may run, so the sweep is modelled one step per await.  Each    *)
(* step applies the awaited store/host operation and runs the synchronous  *)
(* code up to the next await.  The other handlers issue a single store     *)
(* operation and are one step each; the unprotect branch of                *)
(* setTabProtection issues two and is two steps.                           *)
(*                                                                         *)
(* Spec interleaves the sweep with the host and user handlers; SpecSweep   *)
(* runs one sweep on its own over all stores, tabs and settings of         *)
(* InitSweep; SpecHistory applies the history operations.  The other       *)
(* specifications start a sweep, the janitor, the popup or the badge in    *)
(* one particular situation: overlapping alarms, a failing store, an       *)
(* unknown unit, missing settings, a history limit of 0, a history page    *)
(* in use, tabs opening at startup.                                        *)
(***************************************************************************)
EXTENDS Integers, Sequences, FiniteSets, TLC

\* ---------------------------------------------------------------- bounds
MaxTabId == 1       \* tab ids are 0..MaxTabId
MaxTicks == 2       \* number of clock advances in a behaviour
MaxEvents == 3      \* number of host/user events in a behaviour
MaxSweeps == 2      \* number of alarm ticks in a behaviour
MaxHist == 4        \* history operations in the history specification
MaxRunning == 1     \* checkTabs executions in progress at the same time
MaxOverlap == 2     \* the same, in the specification of overlapping sweeps
MaxBadge == 3       \* events and updateBadge executions in the badge
                    \* specification
MaxFailures == 1    \* failed store operations in the specification of
                    \* store failures

\* checkTabs executions that can be in progress at the same time
Sweepers == {1, 2}

TabIds == 0..MaxTabId

\* clock advances: one millisecond, one minute
Deltas == {1, 60000}

\* values the settings popup offers
Timeouts == {1, 2}
Units == {"minutes", "hours", "days"}
Limits == {-1, 1, 2}

\* a storage key that is not present (JS undefined); timestamps written by
\* the code are Date.now() values, which are positive
Absent == 0

VARIABLES
    now,            \* the wall clock, Date.now()
    tabs,           \* host: tab id -> [live, pinned, audible, active]
    tabTs,          \* chrome.storage.local tab_<id>: last-active timestamp
    prot,           \* chrome.storage.local protected_<id>
    closedTabs,     \* chrome.storage.local closedTabs: the history list
    settings,       \* chrome.storage.sync: timeout, unit, historyLimit
    unprotecting,   \* tabs whose unprotect removed the flag, set pending
    sweep,          \* per checkTabs execution: position and locals
    obs,            \* per checkTabs execution: what it did (history variable)
    nextId,         \* number of ids generated so far (crypto.randomUUID)
    unprotectedAt,  \* per tab: when its last unprotect completed and the
                    \* timestamp it replaced (history variable)
    last,           \* the last history operation: its input and result
                    \* (history variable)
    janitor,        \* the cleanUpStorage execution: position and locals
    badge,          \* the badge text per tab and the updateBadge executions
                    \* in progress
    click,          \* the last click on the save button of the popup: its
                    \* inputs and outcome (history variable)
    stamps,         \* per tab: when it was last activated, the timestamp
                    \* that left, when it was last pinned (history variable)
    budget          \* remaining ticks, events, sweeps, history operations
                    \* and store failures

vars == <<now, tabs, tabTs, prot, closedTabs, settings, unprotecting,
          sweep, obs, nextId, unprotectedAt, last, janitor, stamps,
          badge, click, budget>>

\* ------------------------------------------------------------- settings
\* storage.js getSettings: stored values, with defaults for missing ones
\* (s is the stored object: a function on the keys that are set)
GetSettings(s) ==
    [timeout |-> IF "timeout" \in DOMAIN s /\ s.timeout # 0
                 THEN s.timeout ELSE 30,
     unit |-> IF "unit" \in DOMAIN s /\ s.unit # ""
              THEN s.unit ELSE "minutes",
     historyLimit |-> IF "historyLimit" \in DOMAIN s
                      THEN s.historyLimit ELSE 100]

\* logic.js checkTabs: the multiplier of the unit read from the settings
Multiplier(unit) ==
    IF unit = "hours" THEN 60 * 60 * 1000
    ELSE IF unit = "days" THEN 24 * 60 * 60 * 1000
    ELSE 60 * 1000

\* the unit converter of the bundled background script: no value for a unit
\* that is not minutes, hours or days (it throws)
unitToMs(unit) ==
    CASE unit = "minutes" -> 60 * 1000
      [] unit = "hours" -> 60 * 60 * 1000
      [] unit = "days" -> 24 * 60 * 60 * 1000
      [] OTHER -> -1

\* ------------------------------------------------------------- history
\* tabs.length = n on a longer array: keeps the first n elements
TruncateFront(list, n) == SubSeq(list, Len(list) - n + 1, Len(list))
Truncate(list, n) == SubSeq(list, 1, n)

\* storage.js addClosedTab after its two reads: unshift, then apply limit
Unshift(list, tabInfo) == <<tabInfo>> \o list

ApplyLimitNone(list, historyLimit) == list
ApplyLimit(list, historyLimit) ==
    IF historyLimit # -1 /\ Len(list) > historyLimit
    THEN Truncate(list, historyLimit)
    ELSE list

\* tabInfo.id is kept when present, generated otherwise (crypto.randomUUID:
\* fresh is a value that was not generated before)
WithIdConstant(tabInfo, fresh) == [tabInfo EXCEPT !.id = 1]
WithId(tabInfo, fresh) ==
    IF tabInfo.id = Absent THEN [tabInfo EXCEPT !.id = fresh] ELSE tabInfo

AddClosedTabListOnce(list, historyLimit, tabInfo) ==
    IF \E j \in 1..Len(list) : list[j].title = tabInfo.title
    THEN list
    ELSE ApplyLimit(Unshift(list, tabInfo), historyLimit)
AddClosedTabList(list, historyLimit, tabInfo) ==
    ApplyLimit(Unshift(list, tabInfo), historyLimit)

\* storage.js removeExpiredTab: filter out the entries with that id (ids
\* are strings, on which the String() of the comparison changes nothing)
FilterInverted(list, tabId) == SelectSeq(list, LAMBDA e : e.id = tabId)
RECURSIVE Filter(_, _)
Filter(list, tabId) ==
    IF list = <<>> THEN <<>>
    ELSE IF Head(list).id # tabId
         THEN <<Head(list)>> \o Filter(Tail(list), tabId)
         ELSE Filter(Tail(list), tabId)

\* ---------------------------------------------------------------- sweep
NoTab == [live |-> FALSE, pinned |-> FALSE, audible |-> FALSE,
          active |-> FALSE]

IdleSweep ==
    [pc |-> "idle", timeoutMs |-> 0, now |-> 0,
     tabs |-> [t \in TabIds |-> NoTab], tabsToCheck |-> <<>>,
     storedTs |-> [t \in TabIds |-> Absent],
     storedProt |-> [t \in TabIds |-> FALSE],
     updates |-> [t \in TabIds |-> Absent], i |-> 0,
     historyLimit |-> 0, tabInfo |-> [id |-> Absent, title |-> 0,
                                       closedAt |-> 0],
     expiredTabs |-> <<>>]

\* per tab: whether the remove of its last unprotect left no flag, when that
\* unprotect completed, the timestamp it replaced and the one it left
NeverUnprotected ==
    [t \in TabIds |-> [removed |-> FALSE, at |-> Absent, before |-> Absent,
                       ts |-> Absent]]

\* per tab: when it was last activated and the timestamp the handler left,
\* when it was last pinned or unpinned
NoStamps ==
    [t \in TabIds |-> [activatedAt |-> Absent, activatedTs |-> Absent,
                       pinnedAt |-> Absent]]

\* what a checkTabs execution did: the tabs it called closeTab for, wrote a
\* history entry for, issued tabs.remove for (and those of them whose
\* protected_ key was set at that moment), the tab_ keys it changed,
\* whether it has returned and the tab_ keys right after its last step; the
\* unprotects, activations and pinnings that had completed when it started;
\* the tabs whose tabs.remove failed and those whose history entry was gone
\* after the failure; whether it issued the bulk read and whether it wrote
\* to the store; the candidates whose unprotect was between its two writes
\* at the bulk read; the tabs it closed while their stored timestamp was
\* within the timeout; the open tabs whose timestamp it lowered; whether
\* its bulk read and its final write failed; the tab_ keys staged by the
\* execution before it when the final write of that one failed, and the
\* tabs whose tabs.remove failed in that one; the number of its reads and
\* writes of tab_ and protected_ keys and the tab_ keys of its final write
NoObs == [closeTab |-> {}, appended |-> {}, removed |-> {},
          removedProtected |-> {}, touched |-> {},
          done |-> FALSE, tsAfter |-> [t \in TabIds |-> Absent],
          unprotectedAt |-> NeverUnprotected, stamps |-> NoStamps,
          failed |-> {}, rolledBack |-> {}, bulkRead |-> FALSE,
          wrote |-> FALSE, midUnprotect |-> {}, removedFresh |-> {},
          decreased |-> {}, readFailed |-> FALSE, writeFailed |-> FALSE,
          prevStaged |-> {}, prevFailed |-> {}, tabReads |-> 0,
          tabWrites |-> 0, written |-> {}]

\* no badge text, no updateBadge in progress; left: the updateBadge
\* executions that a specification still explores; dropped: a call of
\* updateBadge was not explored
NoBadge == [text |-> [t \in TabIds |-> ""], pending |-> {}, left |-> 0,
            dropped |-> TRUE]

\* no click on the save button yet
NoClick == [result |-> "none", timeout |-> 0, historyLimit |-> 0,
            before |-> <<>>]

\* cleanUpStorage: its position and locals; the keys it removed and the
\* history and settings it found (history variables)
IdleJanitor ==
    [pc |-> "idle", allKeys |-> {}, openTabIds |-> {}, keysToRemove |-> {},
     removed |-> {}, closedTabs |-> <<>>, settings |-> <<>>]

\* checkTabs, first loop: a pinned or audible tab is no candidate
SkippedPinnedOnly(tab) == tab.pinned
Skipped(tab) == tab.pinned \/ tab.audible

\* the candidates of the first loop of checkTabs, in query order
RECURSIVE Candidates(_, _)
Candidates(q, t) ==
    IF t > MaxTabId THEN <<>>
    ELSE IF ~q[t].live \/ Skipped(q[t])
         THEN Candidates(q, t + 1)
         ELSE <<t>> \o Candidates(q, t + 1)

\* checkTabs, second loop: the tests on one candidate
IsProtectedUnlessActive(s, t) == s.storedProt[t] /\ ~s.tabs[t].active
IsProtected(s, t) == s.storedProt[t]

IsActiveNever(s, t) == FALSE
IsActive(s, t) == s.tabs[t].active

\* !lastActive: no stored timestamp (undefined, or 0)
IsFresh(s, t) == s.storedTs[t] = Absent

LastActiveStored(s, t) == s.storedTs[t]
LastActive(s, t) == IF IsFresh(s, t) THEN s.now ELSE s.storedTs[t]

ExpiredAtTimeout(s, lastActive) == s.now - lastActive >= s.timeoutMs
Expired(s, lastActive) == s.now - lastActive > s.timeoutMs

\* the second loop of checkTabs from candidate i on, up to the first
\* closeTab call (an await) or the end of the list
RECURSIVE RunLoop(_, _, _)
RunLoop(s, i, updates) ==
    IF i > Len(s.tabsToCheck)
    THEN [i |-> i, updates |-> updates, expired |-> FALSE]
    ELSE LET t == s.tabsToCheck[i] IN
         IF IsProtected(s, t)
         THEN RunLoop(s, i + 1, updates)
         ELSE IF IsActive(s, t)
         THEN RunLoop(s, i + 1, [updates EXCEPT ![t] = s.now])
         ELSE LET upd == IF IsFresh(s, t)
                         THEN [updates EXCEPT ![t] = s.now]
                         ELSE updates
              IN IF Expired(s, LastActive(s, t))
                 THEN [i |-> i, updates |-> upd, expired |-> TRUE]
                 ELSE RunLoop(s, i + 1, upd)

\* continue checkTabs from candidate i: stop at a closeTab call, at the
\* final batched write, or at the end
Continue(s, i) ==
    LET r == RunLoop(s, i, s.updates) IN
    IF r.expired
    THEN [s EXCEPT !.pc = "addGetSettings", !.i = r.i, !.updates = r.updates,
                   !.tabInfo = [id |-> Absent, title |-> s.tabsToCheck[r.i],
                                closedAt |-> now]]
    ELSE IF \E t \in TabIds : r.updates[t] # Absent
    THEN [s EXCEPT !.pc = "set", !.i = r.i, !.updates = r.updates]
    ELSE [s EXCEPT !.pc = "idle", !.i = r.i, !.updates = r.updates]

\* ------------------------------------------------------------- badge
\* updateBadge(tabId) is called: the execution awaits getTabProtection
updateBadge(b, tabId) ==
    IF b.left > 0
    THEN [b EXCEPT !.pending = @ \cup {[n |-> b.left, tabId |-> tabId,
                                        pc |-> "get", isProtected |-> FALSE]},
                   !.left = @ - 1]
    ELSE [b EXCEPT !.dropped = TRUE]

\* the badge text for a protection status
BadgeText(isProtected) == IF isProtected THEN "lock" ELSE ""

\* ------------------------------------------------------------- actions
\* time passes
Tick(d) ==
    /\ budget.ticks > 0
    /\ now' = now + d
    /\ budget' = [budget EXCEPT !.ticks = @ - 1]
    /\ UNCHANGED <<tabs, tabTs, prot, closedTabs, settings, unprotecting,
                   sweep, obs, nextId,
                   unprotectedAt, last, janitor, badge, click, stamps>>

Event == /\ budget.events > 0
         /\ budget' = [budget EXCEPT !.events = @ - 1]

\* main.js onActivated: the tab gets the focus, its timestamp is set
OnActivated(t) ==
    /\ Event
    /\ tabs[t].live /\ ~tabs[t].active
    /\ tabs' = [u \in TabIds |-> [tabs[u] EXCEPT !.active = (u = t)]]
    /\ tabTs' = [tabTs EXCEPT ![t] = now]
    /\ stamps' = [stamps EXCEPT ![t].activatedAt = now,
                                ![t].activatedTs = tabTs'[t]]
    /\ badge' = updateBadge(badge, t)
    /\ UNCHANGED <<now, prot, closedTabs, settings, unprotecting, sweep, obs,
                   nextId, unprotectedAt, last, janitor, click>>

\* the host opens a tab (in a new session tab ids start again, so the id
\* may be one of an earlier session); no listener is registered for it
TabCreated(t) ==
    /\ Event
    /\ ~tabs[t].live
    /\ tabs' = [tabs EXCEPT ![t] = [NoTab EXCEPT !.live = TRUE]]
    /\ UNCHANGED <<now, tabTs, prot, closedTabs, settings, unprotecting,
                   sweep, obs, nextId, unprotectedAt, last, janitor, badge,
                   click, stamps>>

\* main.js onUpdated with status "complete": the timestamp is set
OnUpdated(t) ==
    /\ Event
    /\ tabs[t].live
    /\ tabTs' = [tabTs EXCEPT ![t] = now]
    /\ badge' = updateBadge(badge, t)
    /\ UNCHANGED <<now, tabs, prot, closedTabs, settings, unprotecting, sweep,
                   obs, nextId, unprotectedAt, last, janitor, click, stamps>>

\* main.js onRemoved: both keys of the tab are removed
RemovedTs(ts, t) == [ts EXCEPT ![t] = Absent]
RemovedProt(p, t) == [p EXCEPT ![t] = FALSE]

\* the user closes a tab; onRemoved runs
OnRemoved(t) ==
    /\ Event
    /\ tabs[t].live
    /\ tabs' = [tabs EXCEPT ![t] = NoTab]
    /\ tabTs' = RemovedTs(tabTs, t)
    /\ prot' = RemovedProt(prot, t)
    /\ UNCHANGED <<now, closedTabs, settings, unprotecting, sweep, obs,
                   nextId, unprotectedAt, last, janitor, badge, click, stamps>>

\* the host reports a tab as pinned / unpinned, audible / silent
SetPinned(t) ==
    /\ Event
    /\ tabs[t].live
    /\ tabs' = [tabs EXCEPT ![t].pinned = ~@]
    /\ stamps' = [stamps EXCEPT ![t].pinnedAt =
                                   IF tabs'[t].pinned THEN now ELSE @]
    /\ UNCHANGED <<now, tabTs, prot, closedTabs, settings, unprotecting,
                   sweep, obs, nextId,
                   unprotectedAt, last, janitor, badge, click>>

SetAudible(t) ==
    /\ Event
    /\ tabs[t].live
    /\ tabs' = [tabs EXCEPT ![t].audible = ~@]
    /\ UNCHANGED <<now, tabTs, prot, closedTabs, settings, unprotecting,
                   sweep, obs, nextId,
                   unprotectedAt, last, janitor, badge, click, stamps>>

\* storage.js setTabProtection(t, true): one write, of the flag; the
\* timestamp of the tab is not in it; storage.onChanged calls
\* updateBadge for the tab of a changed protected_ key (for the keys removed
\* with a closed tab updateBadge fails in setBadgeText and changes nothing)
ProtectTsReset(ts, t, time) == [ts EXCEPT ![t] = time]
ProtectTs(ts, t, time) == ts

Protect(t) ==
    /\ Event
    /\ tabs[t].live /\ tabs[t].active
    /\ ~prot[t]
    /\ prot' = [prot EXCEPT ![t] = TRUE]
    /\ tabTs' = ProtectTs(tabTs, t, now)
    /\ badge' = updateBadge(badge, t)
    /\ UNCHANGED <<now, tabs, closedTabs, settings, unprotecting,
                   sweep, obs, nextId,
                   unprotectedAt, last, janitor, click, stamps>>

\* storage.js setTabProtection(t, false), first operation: remove the flag
UnprotectRemove(t) ==
    /\ Event
    /\ tabs[t].live /\ tabs[t].active
    /\ prot[t]
    /\ t \notin unprotecting
    /\ prot' = [prot EXCEPT ![t] = FALSE]
    /\ unprotecting' = unprotecting \cup {t}
    /\ unprotectedAt' = [unprotectedAt EXCEPT ![t].removed = ~prot'[t]]
    /\ badge' = updateBadge(badge, t)
    /\ UNCHANGED <<now, tabs, tabTs, closedTabs, settings, sweep, obs,
                   nextId, last, janitor, click, stamps>>

\* setTabProtection(t, false), in the callback of the remove: the timestamp
\* is set to Date.now()
UnprotectTs(ts, t, time) == [ts EXCEPT ![t] = time]

UnprotectSet(t) ==
    /\ t \in unprotecting
    /\ tabTs' = UnprotectTs(tabTs, t, now)
    /\ unprotecting' = unprotecting \ {t}
    /\ unprotectedAt' = [unprotectedAt EXCEPT
                           ![t] = [@ EXCEPT !.at = now, !.before = tabTs[t],
                                            !.ts = tabTs'[t]]]
    /\ UNCHANGED <<now, tabs, prot, closedTabs, settings, sweep, obs, nextId,
                   last, janitor, badge, click, stamps, budget>>

\* ------------------------------------------------- updateBadge, by await
\* getTabProtection resolves; setBadgeText is issued
BadgeGet(n) ==
    \E b \in badge.pending :
    /\ b.n = n /\ b.pc = "get"
    /\ badge' = [badge EXCEPT
                   !.pending = (@ \ {b}) \cup
                       {[b EXCEPT !.pc = "set",
                                  !.isProtected = prot[b.tabId]]}]
    /\ UNCHANGED <<now, tabs, tabTs, prot, closedTabs, settings,
                   unprotecting, sweep, obs, nextId, unprotectedAt, last,
                   janitor, click, stamps, budget>>

\* setBadgeText is applied, or fails on a closed tab (caught); for a
\* protected tab the background colour is set next
BadgeSet(n) ==
    \E b \in badge.pending :
    /\ b.n = n /\ b.pc = "set"
    /\ badge' = [badge EXCEPT
                   !.pending = @ \ {b},
                   !.text[b.tabId] = IF tabs[b.tabId].live
                                     THEN BadgeText(b.isProtected) ELSE @]
    /\ UNCHANGED <<now, tabs, tabTs, prot, closedTabs, settings,
                   unprotecting, sweep, obs, nextId, unprotectedAt, last,
                   janitor, click, stamps, budget>>

\* ---------------------------------------------------- checkTabs, by await
\* the observations of execution k after one of its steps
Observe(k, o) ==
    obs' = [obs EXCEPT ![k] =
              [o EXCEPT !.touched = @ \cup
                            {t \in TabIds : tabTs'[t] # tabTs[t]},
                        !.decreased = @ \cup
                            {t \in TabIds : /\ tabs'[t].live
                                            /\ tabTs'[t] # Absent
                                            /\ tabTs'[t] < tabTs[t]},
                        !.done = (sweep'[k].pc = "idle"),
                        !.tsAfter = IF sweep'[k].pc = "idle" THEN tabTs'
                                    ELSE @]]

\* closeTab has been called for the candidate the loop stopped at
NoteCloseTab(o, s) ==
    IF s.pc = "addGetSettings"
    THEN [o EXCEPT !.closeTab = @ \cup {s.tabsToCheck[s.i]}]
    ELSE o

\* the tab_ keys in the updates object of an execution
Staged(s) == {t \in TabIds : s.updates[t] # Absent}

\* the outcomes of a store operation: applied, or failed (a specification
\* explores budget.failures failures)
Outcomes == IF budget.failures > 0 THEN BOOLEAN ELSE {TRUE}

Spend(ok) == IF ok THEN budget ELSE [budget EXCEPT !.failures = @ - 1]

\* the checkTabs executions in progress
Running == {k \in Sweepers : sweep[k].pc # "idle"}

\* alarms.onAlarm: checkTabs starts and awaits getSettings.  The listener
\* has no condition on earlier executions; budget.running bounds the number
\* of executions in progress that a specification explores, and k is the
\* first free record
Alarm(k) ==
    /\ budget.sweeps > 0
    /\ Cardinality(Running) < budget.running
    /\ k \notin Running
    /\ \A j \in Sweepers \ Running : k <= j
    /\ budget' = [budget EXCEPT !.sweeps = @ - 1]
    /\ sweep' = [sweep EXCEPT ![k] = [IdleSweep EXCEPT !.pc = "getSettings"]]
    /\ obs' = [obs EXCEPT ![k] = [NoObs EXCEPT
                                    !.unprotectedAt = unprotectedAt,
                                    !.stamps = stamps,
                                    !.prevStaged =
                                        IF obs[k].writeFailed
                                        THEN Staged(sweep[k]) ELSE {},
                                    !.prevFailed = obs[k].failed]]
    /\ UNCHANGED <<now, tabs, tabTs, prot, closedTabs, settings,
                   unprotecting, nextId, unprotectedAt, last, janitor,
                   badge, click, stamps>>

\* getSettings resolves: timeoutMs and now are computed, tabs.query is issued
SweepSettings(k) ==
    /\ sweep[k].pc = "getSettings"
    /\ LET st == GetSettings(settings) IN
       sweep' = [sweep EXCEPT ![k].pc = "query",
                              ![k].timeoutMs = st.timeout * Multiplier(st.unit),
                              ![k].now = now]
    /\ UNCHANGED <<now, tabs, tabTs, prot, closedTabs, settings,
                   unprotecting, nextId, unprotectedAt, last, janitor,
                   badge, click, stamps, budget>>
    /\ Observe(k, obs[k])

\* if (keysToFetch.length === 0) return; otherwise the bulk read is issued
AfterQueryAlwaysGet(tabsToCheck) == "get"
AfterQuery(tabsToCheck) == IF tabsToCheck = <<>> THEN "idle" ELSE "get"

\* tabs.query resolves: the candidates are collected; without candidates
\* checkTabs returns, otherwise the bulk read is issued
SweepQuery(k) ==
    /\ sweep[k].pc = "query"
    /\ LET c == Candidates(tabs, 0) IN
       sweep' = [sweep EXCEPT ![k].tabs = tabs,
                              ![k].tabsToCheck = c,
                              ![k].pc = AfterQuery(c)]
    /\ UNCHANGED <<now, tabs, tabTs, prot, closedTabs, settings,
                   unprotecting, nextId, unprotectedAt, last, janitor,
                   badge, click, stamps, budget>>
    /\ Observe(k, obs[k])

\* the keys fetched by the bulk read: tab_ and protected_ of the candidates
Fetched(s, t) == \E j \in 1..Len(s.tabsToCheck) : s.tabsToCheck[j] = t

\* the bulk read rejects: the await throws, checkTabs has no try around it
\* and the execution ends
ReadRejectedGoOn(s) == Continue(s, 1)
ReadRejected(s) == [s EXCEPT !.pc = "idle"]

\* the bulk read resolves: the loop over the candidates starts; or it
\* rejects: checkTabs throws and the execution ends
SweepGet(k) ==
    /\ sweep[k].pc = "get"
    /\ \E ok \in Outcomes :
       /\ LET s == [sweep[k] EXCEPT
                      !.storedTs = [t \in TabIds |->
                          IF Fetched(sweep[k], t) THEN tabTs[t] ELSE Absent],
                      !.storedProt = [t \in TabIds |->
                          IF Fetched(sweep[k], t) THEN prot[t] ELSE FALSE]]
          IN sweep' = [sweep EXCEPT
                         ![k] = IF ok THEN Continue(s, 1)
                                ELSE ReadRejected(sweep[k])]
       /\ budget' = Spend(ok)
       /\ UNCHANGED <<now, tabs, tabTs, prot, closedTabs, settings,
                      unprotecting, nextId, unprotectedAt, last, janitor,
                      badge, click, stamps>>
       /\ Observe(k, NoteCloseTab(
                         [obs[k] EXCEPT
                            !.bulkRead = TRUE,
                            !.tabReads = @ + 1,
                            !.readFailed = ~ok,
                            !.midUnprotect =
                                IF ok
                                THEN {t \in unprotecting :
                                         Fetched(sweep[k], t)}
                                ELSE @],
                         sweep'[k]))

\* closeTab -> addClosedTab: getSettings resolves
SweepAddGetSettings(k) ==
    /\ sweep[k].pc = "addGetSettings"
    /\ sweep' = [sweep EXCEPT
                   ![k].pc = "addGetExpired",
                   ![k].historyLimit = GetSettings(settings).historyLimit]
    /\ UNCHANGED <<now, tabs, tabTs, prot, closedTabs, settings,
                   unprotecting, nextId, unprotectedAt, last, janitor,
                   badge, click, stamps, budget>>
    /\ Observe(k, obs[k])

\* addClosedTab: the history read resolves; the id is generated, the entry
\* is put in front, the limit is applied and the write is issued
SweepAddGetExpired(k) ==
    /\ sweep[k].pc = "addGetExpired"
    /\ nextId' = nextId + 1
    /\ sweep' = [sweep EXCEPT
                   ![k].pc = "addSet",
                   ![k].tabInfo = WithId(@, nextId + 1),
                   ![k].expiredTabs =
                       AddClosedTabList(closedTabs, sweep[k].historyLimit,
                                        WithId(sweep[k].tabInfo, nextId + 1))]
    /\ UNCHANGED <<now, tabs, tabTs, prot, closedTabs, settings,
                   unprotecting, unprotectedAt, last, janitor,
                   badge, click, stamps, budget>>
    /\ Observe(k, obs[k])

\* addClosedTab: the history write is applied, or it fails; in both cases
\* the callback of storage.local.set resolves the promise (it does not look
\* at runtime.lastError) and closeTab issues tabs.remove
SweepAddSet(k) ==
    /\ sweep[k].pc = "addSet"
    /\ \E ok \in Outcomes :
       /\ closedTabs' = IF ok THEN sweep[k].expiredTabs ELSE closedTabs
       /\ sweep' = [sweep EXCEPT ![k].pc = "remove"]
       /\ budget' = Spend(ok)
       /\ UNCHANGED <<now, tabs, tabTs, prot, settings, unprotecting,
                      nextId, unprotectedAt, last, janitor, badge, click,
                      stamps>>
       /\ Observe(k, IF ok
                     THEN [obs[k] EXCEPT
                             !.appended = @ \cup {sweep[k].tabInfo.title},
                             !.wrote = TRUE]
                     ELSE obs[k])

\* closeTab after tabs.remove: a rejection is caught and logged, in both
\* cases closeTab returns and the loop goes on with the next candidate
AfterCloseAbort(s, ok) ==
    IF ok THEN Continue(s, s.i + 1) ELSE [s EXCEPT !.pc = "idle"]
AfterClose(s, ok) == Continue(s, s.i + 1)

\* the history entry that closeTab wrote for the candidate is in the list
HasEntry(list, tabInfo) ==
    \E j \in 1..Len(list) : list[j].id = tabInfo.id

\* closeTab: tabs.remove is applied (onRemoved then removes the keys of the
\* tab), or it fails: the tab is gone, or the host refuses to close it
SweepRemove(k) ==
    /\ sweep[k].pc = "remove"
    /\ LET t == sweep[k].tabsToCheck[sweep[k].i] IN
       \E ok \in IF tabs[t].live THEN BOOLEAN ELSE {FALSE} :
       /\ IF ok
          THEN /\ tabs' = [tabs EXCEPT ![t] = NoTab]
               /\ tabTs' = RemovedTs(tabTs, t)
               /\ prot' = RemovedProt(prot, t)
          ELSE UNCHANGED <<tabs, tabTs, prot>>
       /\ sweep' = [sweep EXCEPT ![k] = AfterClose(sweep[k], ok)]
       /\ UNCHANGED <<now, closedTabs, settings, unprotecting, nextId,
                      unprotectedAt, last, janitor,
                      badge, click, stamps, budget>>
       /\ Observe(k, NoteCloseTab(
                         [obs[k] EXCEPT
                            !.removed = @ \cup {t},
                            !.removedProtected =
                                IF prot[t] THEN @ \cup {t} ELSE @,
                            !.failed = IF ok THEN @ ELSE @ \cup {t},
                            !.removedFresh =
                                IF /\ ok /\ tabTs[t] # Absent
                                   /\ now - tabTs[t] <= sweep[k].timeoutMs
                                THEN @ \cup {t} ELSE @,
                            !.rolledBack =
                                IF /\ ~ok
                                   /\ HasEntry(closedTabs, sweep[k].tabInfo)
                                   /\ ~HasEntry(closedTabs', sweep[k].tabInfo)
                                THEN @ \cup {t} ELSE @],
                         sweep'[k]))

\* the final batched write of the staged timestamps is applied, or it
\* rejects: checkTabs throws and the execution ends
SweepSet(k) ==
    /\ sweep[k].pc = "set"
    /\ \E ok \in Outcomes :
       /\ tabTs' = [t \in TabIds |->
                      IF ok /\ sweep[k].updates[t] # Absent
                      THEN sweep[k].updates[t]
                      ELSE tabTs[t]]
       /\ sweep' = [sweep EXCEPT ![k].pc = "idle"]
       /\ budget' = Spend(ok)
       /\ UNCHANGED <<now, tabs, prot, closedTabs, settings, unprotecting,
                      nextId, unprotectedAt, last, janitor,
                      badge, click, stamps>>
       /\ Observe(k, [obs[k] EXCEPT
                        !.wrote = @ \/ ok,
                        !.writeFailed = ~ok,
                        !.tabWrites = @ + 1,
                        !.written = IF ok THEN Staged(sweep[k]) ELSE @])

\* ------------------------------------------------------- specification
\* the tabs are open, tab 0 has the focus
InitTabs ==
    [t \in TabIds |-> [live |-> TRUE, pinned |-> FALSE, audible |-> FALSE,
                       active |-> (t = 0)]]

\* a timeout of one minute has been saved, with a history limit
InitSettings ==
    {[timeout |-> 1, unit |-> "minutes", historyLimit |-> h] : h \in Limits}

NoEntry == [id |-> Absent, title |-> 0, closedAt |-> 0]

\* a history entry of an earlier session
OldEntry == [id |-> 1, title |-> 0, closedAt |-> 1]

\* the last history operation: its kind, the id it is about, the entry it
\* added, the limit it read, the list before and after; and the kind and id
\* of the operation before it, and whether that one changed the list; the
\* ids of all entries appended so far, and whether the id of the entry it
\* added was none of them
NoLast == [op |-> "none", arg |-> 0, entry |-> NoEntry, historyLimit |-> 0,
           before |-> <<>>, after |-> <<>>, prevOp |-> "none", prevArg |-> 0,
           prevChanged |-> FALSE, used |-> {}, fresh |-> FALSE]

\* the extension has just been installed: tabs are open, the local store is
\* empty, settings have been saved
Init ==
    /\ now = 1
    /\ tabs = InitTabs
    /\ tabTs = [t \in TabIds |-> Absent]
    /\ prot = [t \in TabIds |-> FALSE]
    /\ closedTabs = <<>>
    /\ settings \in InitSettings
    /\ unprotecting = {}
    /\ sweep = [k \in Sweepers |-> IdleSweep]
    /\ obs = [k \in Sweepers |-> NoObs]
    /\ nextId = 0
    /\ unprotectedAt = NeverUnprotected
    /\ last = NoLast
    /\ janitor = IdleJanitor
    /\ stamps = NoStamps
    /\ badge = NoBadge
    /\ click = NoClick
    /\ budget = [ticks |-> MaxTicks, events |-> MaxEvents,
                 sweeps |-> MaxSweeps, hist |-> 0,
                 running |-> MaxRunning,
                 failures |-> 0]

Next ==
    \/ \E d \in Deltas : Tick(d)
    \/ \E t \in TabIds : OnActivated(t)
    \/ \E t \in TabIds : OnUpdated(t)
    \/ \E t \in TabIds : OnRemoved(t)
    \/ \E t \in TabIds : SetPinned(t)
    \/ \E t \in TabIds : SetAudible(t)
    \/ \E t \in TabIds : Protect(t)
    \/ \E t \in TabIds : UnprotectRemove(t)
    \/ \E t \in TabIds : UnprotectSet(t)
    \/ \E k \in Sweepers : Alarm(k)
    \/ \E k \in Sweepers : SweepSettings(k)
    \/ \E k \in Sweepers : SweepQuery(k)
    \/ \E k \in Sweepers : SweepGet(k)
    \/ \E k \in Sweepers : SweepAddGetSettings(k)
    \/ \E k \in Sweepers : SweepAddGetExpired(k)
    \/ \E k \in Sweepers : SweepAddSet(k)
    \/ \E k \in Sweepers : SweepRemove(k)
    \/ \E k \in Sweepers : SweepSet(k)

Spec == Init /\ [][Next]_vars

\* ----------------------------------------------- the sweep on its own
\* the clock at the sweep: a timeout after the timestamps 1 and 2
SweepNows ==
    {2 + to * ms : to \in Timeouts, ms \in {60000, 3600000, 86400000}}

\* open tabs, some pinned, some with the focus of their window
SweepTabs ==
    [TabIds -> [live : {TRUE}, pinned : BOOLEAN, audible : {FALSE},
                active : BOOLEAN]]

AllSettings ==
    {[timeout |-> to, unit |-> u, historyLimit |-> h] :
        to \in Timeouts, u \in Units, h \in Limits}

\* the extension has been running: tabs were observed at time 1 or 2 or not
\* yet, some are protected, settings have been saved; one alarm is due
InitSweep ==
    /\ now \in SweepNows
    /\ tabs \in SweepTabs
    /\ tabTs \in [TabIds -> {Absent, 1, 2}]
    /\ prot \in [TabIds -> BOOLEAN]
    /\ closedTabs = <<>>
    /\ settings \in AllSettings
    /\ unprotecting = {}
    /\ sweep = [k \in Sweepers |-> IdleSweep]
    /\ obs = [k \in Sweepers |-> NoObs]
    /\ nextId = 0
    /\ unprotectedAt = NeverUnprotected
    /\ last = NoLast
    /\ janitor = IdleJanitor
    /\ stamps = NoStamps
    /\ badge = NoBadge
    /\ click = NoClick
    /\ budget = [ticks |-> 0, events |-> 0, sweeps |-> 1, hist |-> 0,
                 running |-> MaxRunning,
                 failures |-> 0]

NextSweep ==
    \/ \E k \in Sweepers : Alarm(k)
    \/ \E k \in Sweepers : SweepSettings(k)
    \/ \E k \in Sweepers : SweepQuery(k)
    \/ \E k \in Sweepers : SweepGet(k)
    \/ \E k \in Sweepers : SweepAddGetSettings(k)
    \/ \E k \in Sweepers : SweepAddGetExpired(k)
    \/ \E k \in Sweepers : SweepAddSet(k)
    \/ \E k \in Sweepers : SweepRemove(k)
    \/ \E k \in Sweepers : SweepSet(k)

SpecSweep == InitSweep /\ [][NextSweep]_vars

\* ------------------------------------------------------------ the badge
\* the tabs are open, tab 0 has the focus, no tab is protected and no badge
\* is shown
InitBadge ==
    /\ now = 1
    /\ tabs = InitTabs
    /\ tabTs = [t \in TabIds |-> Absent]
    /\ prot = [t \in TabIds |-> FALSE]
    /\ closedTabs = <<>>
    /\ settings \in InitSettings
    /\ unprotecting = {}
    /\ sweep = [k \in Sweepers |-> IdleSweep]
    /\ obs = [k \in Sweepers |-> NoObs]
    /\ nextId = 0
    /\ unprotectedAt = NeverUnprotected
    /\ last = NoLast
    /\ janitor = IdleJanitor
    /\ stamps = NoStamps
    /\ badge = [NoBadge EXCEPT !.left = MaxBadge, !.dropped = FALSE]
    /\ click = NoClick
    /\ budget = [ticks |-> 0, events |-> MaxBadge, sweeps |-> 0, hist |-> 0,
                 running |-> MaxRunning,
                 failures |-> 0]

NextBadge ==
    \/ \E t \in TabIds : OnActivated(t)
    \/ \E t \in TabIds : OnUpdated(t)
    \/ \E t \in TabIds : Protect(t)
    \/ \E t \in TabIds : UnprotectRemove(t)
    \/ \E t \in TabIds : UnprotectSet(t)
    \/ \E n \in 1..MaxBadge : BadgeGet(n)
    \/ \E n \in 1..MaxBadge : BadgeSet(n)

SpecBadge == InitBadge /\ [][NextBadge]_vars

\* ----------------------------------------------- overlapping sweeps
\* a minute after the tabs were observed or not, with a timeout of one
\* minute; two alarms are due, a minute apart or less
InitOverlap ==
    /\ now = 60002
    /\ tabs \in SweepTabs
    /\ tabTs \in [TabIds -> {Absent, 1}]
    /\ prot \in [TabIds -> BOOLEAN]
    /\ closedTabs = <<>>
    /\ settings \in InitSettings
    /\ unprotecting = {}
    /\ sweep = [k \in Sweepers |-> IdleSweep]
    /\ obs = [k \in Sweepers |-> NoObs]
    /\ nextId = 0
    /\ unprotectedAt = NeverUnprotected
    /\ last = NoLast
    /\ janitor = IdleJanitor
    /\ stamps = NoStamps
    /\ badge = NoBadge
    /\ click = NoClick
    /\ budget = [ticks |-> 1, events |-> 0, sweeps |-> 2, hist |-> 0,
                 running |-> MaxOverlap,
                 failures |-> 0]

NextOverlap ==
    \/ \E d \in Deltas : Tick(d)
    \/ NextSweep

SpecOverlap == InitOverlap /\ [][NextOverlap]_vars

\* ------------------------------------------- store failures
\* as InitOverlap, with one sweep at a time; a store operation of a sweep
\* may fail
InitStoreFail ==
    /\ now = 60002
    /\ tabs \in SweepTabs
    /\ tabTs \in [TabIds -> {Absent, 1}]
    /\ prot \in [TabIds -> BOOLEAN]
    /\ closedTabs = <<>>
    /\ settings \in InitSettings
    /\ unprotecting = {}
    /\ sweep = [k \in Sweepers |-> IdleSweep]
    /\ obs = [k \in Sweepers |-> NoObs]
    /\ nextId = 0
    /\ unprotectedAt = NeverUnprotected
    /\ last = NoLast
    /\ janitor = IdleJanitor
    /\ stamps = NoStamps
    /\ badge = NoBadge
    /\ click = NoClick
    /\ budget = [ticks |-> 1, events |-> 0, sweeps |-> 2, hist |-> 0,
                 running |-> MaxRunning,
                 failures |-> MaxFailures]

SpecStoreFail == InitStoreFail /\ [][NextOverlap]_vars

\* ------------------------------- the sweep with a history limit of 0
\* as InitHistoryRace, with a stored historyLimit of 0 (the popup rejects
\* it, the store accepts it)
InitLimitZero ==
    /\ now = 60002
    /\ tabs \in SweepTabs
    /\ tabTs \in [TabIds -> {Absent, 1}]
    /\ prot \in [TabIds -> BOOLEAN]
    /\ closedTabs = <<OldEntry>>
    /\ settings = [timeout |-> 1, unit |-> "minutes", historyLimit |-> 0]
    /\ unprotecting = {}
    /\ sweep = [k \in Sweepers |-> IdleSweep]
    /\ obs = [k \in Sweepers |-> NoObs]
    /\ nextId = 1
    /\ unprotectedAt = NeverUnprotected
    /\ last = NoLast
    /\ janitor = IdleJanitor
    /\ stamps = NoStamps
    /\ badge = NoBadge
    /\ click = NoClick
    /\ budget = [ticks |-> 0, events |-> 0, sweeps |-> 1, hist |-> 0,
                 running |-> MaxRunning,
                 failures |-> 0]

SpecLimitZero == InitLimitZero /\ [][NextSweep]_vars

\* ------------------------------- the sweep with an unrecognized unit
\* a unit that is not minutes, hours or days
BadUnits == {"weeks"}

\* as InitSweep, with a stored unit that the converter does not know
InitUnit ==
    /\ now \in SweepNows
    /\ tabs \in SweepTabs
    /\ tabTs \in [TabIds -> {Absent, 1, 2}]
    /\ prot \in [TabIds -> BOOLEAN]
    /\ closedTabs = <<>>
    /\ settings \in {[timeout |-> to, unit |-> u, historyLimit |-> h] :
                        to \in Timeouts, u \in BadUnits, h \in Limits}
    /\ unprotecting = {}
    /\ sweep = [k \in Sweepers |-> IdleSweep]
    /\ obs = [k \in Sweepers |-> NoObs]
    /\ nextId = 0
    /\ unprotectedAt = NeverUnprotected
    /\ last = NoLast
    /\ janitor = IdleJanitor
    /\ stamps = NoStamps
    /\ badge = NoBadge
    /\ click = NoClick
    /\ budget = [ticks |-> 0, events |-> 0, sweeps |-> 1, hist |-> 0,
                 running |-> MaxRunning,
                 failures |-> 0]

SpecUnit == InitUnit /\ [][NextSweep]_vars

\* ------------------------------------- the sweep without stored settings
\* as InitSweep, with an empty settings store, half an hour and twelve hours
\* after the tabs were observed
InitDefaults ==
    /\ now \in {2 + 30 * 60 * 1000, 2 + 12 * 60 * 60 * 1000}
    /\ tabs \in SweepTabs
    /\ tabTs \in [TabIds -> {Absent, 1, 2}]
    /\ prot \in [TabIds -> BOOLEAN]
    /\ closedTabs = <<>>
    /\ settings = <<>>
    /\ unprotecting = {}
    /\ sweep = [k \in Sweepers |-> IdleSweep]
    /\ obs = [k \in Sweepers |-> NoObs]
    /\ nextId = 0
    /\ unprotectedAt = NeverUnprotected
    /\ last = NoLast
    /\ janitor = IdleJanitor
    /\ stamps = NoStamps
    /\ badge = NoBadge
    /\ click = NoClick
    /\ budget = [ticks |-> 0, events |-> 0, sweeps |-> 1, hist |-> 0,
                 running |-> MaxRunning,
                 failures |-> 0]

SpecDefaults == InitDefaults /\ [][NextSweep]_vars

\* ------------------------------------------- the history operations
HistOp == /\ budget.hist > 0
          /\ budget' = [budget EXCEPT !.hist = @ - 1]

Changed(l) == l.after # l.before

\* storage.js addClosedTab, as closeTab calls it: without an id
AddClosedTab(tabInfo) ==
    /\ HistOp
    /\ LET historyLimit == GetSettings(settings).historyLimit
           info == WithId(tabInfo, nextId + 1)
           list == AddClosedTabList(closedTabs, historyLimit, info)
       IN /\ closedTabs' = list
          /\ last' = [op |-> "add", arg |-> info.id, entry |-> info,
                      historyLimit |-> historyLimit, before |-> closedTabs,
                      after |-> list, prevOp |-> last.op,
                      prevArg |-> last.arg, prevChanged |-> Changed(last),
                      used |-> last.used \cup {info.id},
                      fresh |-> info.id \notin last.used]
    /\ nextId' = nextId + 1
    /\ UNCHANGED <<now, tabs, tabTs, prot, settings, unprotecting, sweep,
                   obs, unprotectedAt, janitor, badge, click,
                   stamps>>

\* storage.js removeExpiredTab
RemoveExpiredTab(tabId) ==
    /\ HistOp
    /\ closedTabs' = Filter(closedTabs, tabId)
    /\ last' = [op |-> "remove", arg |-> tabId, entry |-> NoEntry,
                historyLimit |-> 0, before |-> closedTabs,
                after |-> closedTabs', prevOp |-> last.op,
                prevArg |-> last.arg, prevChanged |-> Changed(last),
                used |-> last.used, fresh |-> FALSE]
    /\ UNCHANGED <<now, tabs, tabTs, prot, settings, unprotecting, sweep,
                   obs, nextId, unprotectedAt, janitor, badge, click,
                   stamps>>

\* storage.js clearExpiredTabs
ClearExpiredTabs ==
    /\ HistOp
    /\ closedTabs' = <<>>
    /\ last' = [op |-> "clear", arg |-> 0, entry |-> NoEntry,
                historyLimit |-> 0, before |-> closedTabs, after |-> <<>>,
                prevOp |-> last.op, prevArg |-> last.arg,
                prevChanged |-> Changed(last), used |-> last.used,
                fresh |-> FALSE]
    /\ UNCHANGED <<now, tabs, tabTs, prot, settings, unprotecting, sweep,
                   obs, nextId, unprotectedAt, janitor, badge, click,
                   stamps>>

\* storage.js saveSettings: the given keys are set in the settings store;
\* nothing else is read or written
Saved(stored, st) ==
    [n \in DOMAIN stored \cup DOMAIN st |->
        IF n \in DOMAIN st THEN st[n] ELSE stored[n]]

SaveSettings(st) ==
    /\ HistOp
    /\ settings' = Saved(settings, st)
    /\ UNCHANGED <<now, tabs, tabTs, prot, closedTabs, unprotecting, sweep,
                   obs, nextId, unprotectedAt, last, janitor,
                   badge, click, stamps>>

\* the history is empty, a history limit has been saved
InitHistory ==
    /\ now = 1
    /\ tabs = InitTabs
    /\ tabTs = [t \in TabIds |-> Absent]
    /\ prot = [t \in TabIds |-> FALSE]
    /\ closedTabs = <<>>
    /\ settings \in InitSettings
    /\ unprotecting = {}
    /\ sweep = [k \in Sweepers |-> IdleSweep]
    /\ obs = [k \in Sweepers |-> NoObs]
    /\ nextId = 0
    /\ unprotectedAt = NeverUnprotected
    /\ last = NoLast
    /\ janitor = IdleJanitor
    /\ stamps = NoStamps
    /\ badge = NoBadge
    /\ click = NoClick
    /\ budget = [ticks |-> 0, events |-> 0, sweeps |-> 0, hist |-> MaxHist,
                 running |-> MaxRunning,
                 failures |-> 0]

NextHistory ==
    \/ \E t \in TabIds :
          AddClosedTab([id |-> Absent, title |-> t, closedAt |-> now])
    \/ \E id \in 1..MaxHist : RemoveExpiredTab(id)
    \/ ClearExpiredTabs
    \/ \E st \in InitSettings : SaveSettings(st)

SpecHistory == InitHistory /\ [][NextHistory]_vars

\* ------------------------ the history page during an eviction
\* a minute after the tabs were observed or not, with a timeout of one
\* minute and a history entry of an earlier eviction; one alarm is due and
\* the user removes an entry or clears the history on the options page
InitHistoryRace ==
    /\ now = 60002
    /\ tabs \in SweepTabs
    /\ tabTs \in [TabIds -> {Absent, 1}]
    /\ prot \in [TabIds -> BOOLEAN]
    /\ closedTabs = <<OldEntry>>
    /\ settings \in InitSettings
    /\ unprotecting = {}
    /\ sweep = [k \in Sweepers |-> IdleSweep]
    /\ obs = [k \in Sweepers |-> NoObs]
    /\ nextId = 1
    /\ unprotectedAt = NeverUnprotected
    /\ last = NoLast
    /\ janitor = IdleJanitor
    /\ stamps = NoStamps
    /\ badge = NoBadge
    /\ click = NoClick
    /\ budget = [ticks |-> 0, events |-> 0, sweeps |-> 1, hist |-> 1,
                 running |-> MaxRunning,
                 failures |-> 0]

NextHistoryRace ==
    \/ NextSweep
    \/ \E id \in 1..MaxHist : RemoveExpiredTab(id)
    \/ ClearExpiredTabs

SpecHistoryRace == InitHistoryRace /\ [][NextHistoryRace]_vars

\* ---------------------------------------------- the popup's save button
\* parseInt(input.value, 10): a number, or NaN for a field without digits
NaN == [nan |-> TRUE, value |-> 0]
Num(n) == [nan |-> FALSE, value |-> n]
Inputs == {NaN} \cup {Num(n) : n \in -2..2}

isNaN(x) == x.nan

\* the two tests of the click handler
InvalidTime(timeout) == isNaN(timeout) \/ timeout.value < 1

InvalidLimitBelowOnly(historyLimit) ==
    isNaN(historyLimit) \/ historyLimit.value < -1
InvalidLimit(historyLimit) ==
    isNaN(historyLimit) \/ historyLimit.value < -1 \/ historyLimit.value = 0

\* popup.js, click on save: the fields are parsed and tested; saveSettings
\* is called when both tests pass
SaveClick(timeout, unit, historyLimit) ==
    /\ Event
    /\ IF InvalidTime(timeout)
       THEN /\ click' = [result |-> "Invalid time.", timeout |-> timeout,
                         historyLimit |-> historyLimit, before |-> settings]
            /\ UNCHANGED settings
       ELSE IF InvalidLimit(historyLimit)
       THEN /\ click' = [result |-> "Invalid limit.", timeout |-> timeout,
                         historyLimit |-> historyLimit, before |-> settings]
            /\ UNCHANGED settings
       ELSE /\ click' = [result |-> "Settings saved.", timeout |-> timeout,
                         historyLimit |-> historyLimit, before |-> settings]
            /\ settings' = Saved(settings,
                                 [timeout |-> timeout.value, unit |-> unit,
                                  historyLimit |-> historyLimit.value])
    /\ UNCHANGED <<now, tabs, tabTs, prot, closedTabs, unprotecting, sweep,
                   obs, nextId, unprotectedAt, last, janitor, stamps, badge>>

\* the popup is open, settings have been saved before
InitPopup ==
    /\ now = 1
    /\ tabs = InitTabs
    /\ tabTs = [t \in TabIds |-> Absent]
    /\ prot = [t \in TabIds |-> FALSE]
    /\ closedTabs = <<>>
    /\ settings \in InitSettings
    /\ unprotecting = {}
    /\ sweep = [k \in Sweepers |-> IdleSweep]
    /\ obs = [k \in Sweepers |-> NoObs]
    /\ nextId = 0
    /\ unprotectedAt = NeverUnprotected
    /\ last = NoLast
    /\ janitor = IdleJanitor
    /\ stamps = NoStamps
    /\ badge = NoBadge
    /\ click = NoClick
    /\ budget = [ticks |-> 0, events |-> 2, sweeps |-> 0, hist |-> 0,
                 running |-> MaxRunning,
                 failures |-> 0]

NextPopup ==
    \E timeout \in Inputs, unit \in Units, historyLimit \in Inputs :
        SaveClick(timeout, unit, historyLimit)

SpecPopup == InitPopup /\ [][NextPopup]_vars

\* ------------------------------------------------------- cleanUpStorage
\* let tabId; without assignment, and parseInt of a string without digits
Undefined == -1

\* the keys of the local store
getTabKey(tabId) == [prefix |-> "tab_", id |-> tabId]
getProtectedKey(tabId) == [prefix |-> "protected_", id |-> tabId]
OtherKey(name) == [prefix |-> name, id |-> Undefined]

\* the settings keys (the bundled background script keeps them in the local
\* store, next to the per-tab keys and the history)
SettingsKeys == {"timeout", "unit", "historyLimit"}

\* Object.keys(await chrome.storage.local.get(null))
AllKeys ==
    {getTabKey(t) : t \in {u \in TabIds : tabTs[u] # Absent}}
    \cup {getProtectedKey(t) : t \in {u \in TabIds : prot[u]}}
    \cup {OtherKey("closedTabs")}
    \cup {OtherKey(n) : n \in DOMAIN settings}

\* the id parsed from a key with the prefix tab_ or protected_
ParseTabId(key) ==
    IF key.prefix = "tab_" THEN key.id
    ELSE IF key.prefix = "protected_" THEN key.id
    ELSE Undefined

\* tabId && ...: false for undefined, NaN and 0
TruthyAlways(tabId) == TRUE
Truthy(tabId) == tabId # Undefined /\ tabId # 0

\* the loop of cleanUpStorage over allKeys
KeysToRemove(allKeys, openTabIds) ==
    {key \in allKeys :
        Truthy(ParseTabId(key)) /\ ParseTabId(key) \notin openTabIds}

\* chrome.storage.local.remove(keys) on the settings
RemoveSettings(st, keys) ==
    [n \in {m \in DOMAIN st : OtherKey(m) \notin keys} |-> st[n]]

\* the store read resolves; the tab query is issued
CleanGet ==
    /\ janitor.pc = "get"
    /\ janitor' = [janitor EXCEPT !.pc = "query", !.allKeys = AllKeys,
                                  !.closedTabs = closedTabs,
                                  !.settings = settings]
    /\ UNCHANGED <<now, tabs, tabTs, prot, closedTabs, settings,
                   unprotecting, sweep, obs, nextId, unprotectedAt, last,
                   stamps, badge, click, budget>>

\* the tab query resolves; the keys are selected and their removal issued
CleanQuery ==
    /\ janitor.pc = "query"
    /\ LET openTabIds == {t \in TabIds : tabs[t].live}
           keysToRemove == KeysToRemove(janitor.allKeys, openTabIds)
       IN janitor' = [janitor EXCEPT
                        !.pc = IF keysToRemove = {} THEN "done" ELSE "remove",
                        !.openTabIds = openTabIds,
                        !.keysToRemove = keysToRemove]
    /\ UNCHANGED <<now, tabs, tabTs, prot, closedTabs, settings,
                   unprotecting, sweep, obs, nextId, unprotectedAt, last,
                   stamps, badge, click, budget>>

\* the removal is applied
CleanRemove ==
    /\ janitor.pc = "remove"
    /\ tabTs' = [t \in TabIds |->
                   IF getTabKey(t) \in janitor.keysToRemove THEN Absent
                   ELSE tabTs[t]]
    /\ prot' = [t \in TabIds |->
                  IF getProtectedKey(t) \in janitor.keysToRemove THEN FALSE
                  ELSE prot[t]]
    /\ closedTabs' = IF OtherKey("closedTabs") \in janitor.keysToRemove
                     THEN <<>> ELSE closedTabs
    /\ settings' = RemoveSettings(settings, janitor.keysToRemove)
    /\ janitor' = [janitor EXCEPT !.pc = "done",
                                  !.removed = AllKeys \cap janitor.keysToRemove]
    /\ UNCHANGED <<now, tabs, unprotecting, sweep, obs, nextId,
                   unprotectedAt, last, stamps, badge, click, budget>>

\* the browser starts: some of the tabs of the last session are open, the
\* store holds what the last session left; onInstalled / onStartup has
\* called cleanUpStorage
InitJanitor ==
    /\ now = 2
    /\ tabs \in [TabIds -> {NoTab, [NoTab EXCEPT !.live = TRUE]}]
    /\ tabTs \in [TabIds -> {Absent, 1}]
    /\ prot \in [TabIds -> BOOLEAN]
    /\ closedTabs \in {<<>>, <<OldEntry>>}
    /\ settings \in InitSettings
    /\ unprotecting = {}
    /\ sweep = [k \in Sweepers |-> IdleSweep]
    /\ obs = [k \in Sweepers |-> NoObs]
    /\ nextId = 1
    /\ unprotectedAt = NeverUnprotected
    /\ last = NoLast
    /\ janitor = [IdleJanitor EXCEPT !.pc = "get"]
    /\ stamps = NoStamps
    /\ badge = NoBadge
    /\ click = NoClick
    /\ budget = [ticks |-> 0, events |-> 0, sweeps |-> 0, hist |-> 0,
                 running |-> MaxRunning,
                 failures |-> 0]

NextJanitor ==
    \/ CleanGet
    \/ CleanQuery
    \/ CleanRemove

SpecJanitor == InitJanitor /\ [][NextJanitor]_vars

\* ------------------------------------- cleanUpStorage while tabs open
\* as InitJanitor; the session's tabs are opened, focused and loaded while
\* cleanUpStorage runs
InitJanitorRace ==
    /\ now = 2
    /\ tabs \in [TabIds -> {NoTab, [NoTab EXCEPT !.live = TRUE]}]
    /\ tabTs \in [TabIds -> {Absent, 1}]
    /\ prot \in [TabIds -> BOOLEAN]
    /\ closedTabs \in {<<>>, <<OldEntry>>}
    /\ settings \in InitSettings
    /\ unprotecting = {}
    /\ sweep = [k \in Sweepers |-> IdleSweep]
    /\ obs = [k \in Sweepers |-> NoObs]
    /\ nextId = 1
    /\ unprotectedAt = NeverUnprotected
    /\ last = NoLast
    /\ janitor = [IdleJanitor EXCEPT !.pc = "get"]
    /\ stamps = NoStamps
    /\ badge = NoBadge
    /\ click = NoClick
    /\ budget = [ticks |-> 0, events |-> 2, sweeps |-> 0, hist |-> 0,
                 running |-> MaxRunning,
                 failures |-> 0]

NextJanitorRace ==
    \/ NextJanitor
    \/ \E t \in TabIds : TabCreated(t)
    \/ \E t \in TabIds : OnActivated(t)
    \/ \E t \in TabIds : OnUpdated(t)

SpecJanitorRace == InitJanitorRace /\ [][NextJanitorRace]_vars

\* ---------------------------------------------------------------- claims
Pos(s, t) == CHOOSE j \in 1..Len(s.tabsToCheck) : s.tabsToCheck[j] = t

\* the second loop of execution s has made its decision on candidate t
Decided(s, t) ==
    /\ Fetched(s, t)
    /\ s.pc \notin {"getSettings", "query", "get"}
    /\ Pos(s, t) <= s.i

\* everything execution k did to evict: closeTab calls, history writes and
\* close instructions
Evicted(k) == obs[k].closeTab \cup obs[k].appended \cup obs[k].removed

\* t was idle for more than the timeout in the bulk read of execution s
StaleInRead(s, t) ==
    s.storedTs[t] # Absent /\ s.now - s.storedTs[t] > s.timeoutMs

\* a sweep never evicts a tab whose protection flag is set in the sweep's
\* bulk read, whatever its idle time
ProtectedInReadNeverClosed ==
    \A k \in Sweepers : \A t \in TabIds :
        sweep[k].storedProt[t] => t \notin Evicted(k)

\* C1: in every reachable state, no sweep has issued a close instruction for
\* a tab whose protection flag protected_<id> was set at that moment
C1_ProtectedNeverClosed ==
    \A k \in Sweepers : obs[k].removedProtected = {}

\* a completed sweep met a protected tab that is not active and is idle for
\* more than the timeout, and the tab is still open
ProtectedSkipped ==
    \E k \in Sweepers : \E t \in TabIds :
        /\ obs[k].done /\ Decided(sweep[k], t)
        /\ sweep[k].storedProt[t] /\ ~sweep[k].tabs[t].active
        /\ StaleInRead(sweep[k], t)
        /\ tabs[t].live

\* C2: a tab that the sweep's tab query reports as pinned or audible is
\* never closed by that sweep and gets no history entry from it
C2_PinnedAudibleNeverClosed ==
    \A k \in Sweepers : \A t \in TabIds :
        (sweep[k].tabs[t].pinned \/ sweep[k].tabs[t].audible)
            => t \notin Evicted(k)

\* a completed sweep met an audible, unpinned, unprotected, inactive tab
\* whose stored timestamp is older than the timeout, and the tab is open
C2_Witness ==
    \E k \in Sweepers : \E t \in TabIds :
        /\ obs[k].done /\ sweep[k].tabsToCheck # <<>>
        /\ sweep[k].tabs[t].audible /\ ~sweep[k].tabs[t].pinned
        /\ ~sweep[k].tabs[t].active /\ ~prot[t]
        /\ tabTs[t] # Absent /\ sweep[k].now - tabTs[t] > sweep[k].timeoutMs
        /\ tabs[t].live

\* C4: a candidate without a stored timestamp in the bulk read (unprotected,
\* not active) is not evicted by that sweep; the sweep stages tab_<id> = now
\* and right after the sweep's last step the stored timestamp is that now
C4_FreshNeverEvicted ==
    \A k \in Sweepers : \A t \in TabIds :
        (/\ Decided(sweep[k], t)
         /\ ~sweep[k].storedProt[t] /\ ~sweep[k].tabs[t].active
         /\ sweep[k].storedTs[t] = Absent)
        => /\ t \notin Evicted(k)
           /\ sweep[k].updates[t] = sweep[k].now
           /\ obs[k].done => obs[k].tsAfter[t] = sweep[k].now

\* a completed sweep that first observed an inactive tab, with a timeout
\* shorter than the time since the epoch
C4_Witness ==
    \E k \in Sweepers : \E t \in TabIds :
        /\ obs[k].done /\ Decided(sweep[k], t)
        /\ ~sweep[k].storedProt[t] /\ ~sweep[k].tabs[t].active
        /\ sweep[k].storedTs[t] = Absent
        /\ sweep[k].now > sweep[k].timeoutMs
        /\ tabTs[t] = sweep[k].now

\* C5: a candidate that the tab query reports as active is not evicted by
\* that sweep; if it is unprotected the sweep stages tab_<id> = now
C5_ActiveNeverEvicted ==
    \A k \in Sweepers : \A t \in TabIds :
        (Decided(sweep[k], t) /\ sweep[k].tabs[t].active)
        => /\ t \notin Evicted(k)
           /\ ~sweep[k].storedProt[t] => sweep[k].updates[t] = sweep[k].now

\* a completed sweep met an active, unprotected tab whose stored timestamp
\* was older than the timeout
C5_Witness ==
    \E k \in Sweepers : \E t \in TabIds :
        /\ obs[k].done /\ Decided(sweep[k], t)
        /\ sweep[k].tabs[t].active /\ ~sweep[k].storedProt[t]
        /\ StaleInRead(sweep[k], t)
        /\ tabs[t].live /\ tabTs[t] = sweep[k].now

\* C6: no step of a sweep changes tab_<id> of a tab that was protected in
\* the sweep's bulk read, also when the tab is active or has no record
C6_ProtectedTimestampUntouched ==
    \A k \in Sweepers : \A t \in TabIds :
        sweep[k].storedProt[t] => t \notin obs[k].touched

\* a completed sweep that wrote timestamps met a protected tab that is
\* active, and one that met a protected tab without a record
C6_Witness ==
    \E k \in Sweepers : \E t \in TabIds :
        /\ obs[k].done /\ Decided(sweep[k], t)
        /\ sweep[k].storedProt[t]
        /\ sweep[k].tabs[t].active
        /\ sweep[k].storedTs[t] = Absent
        /\ obs[k].touched # {}

UnprotectedRetained ==
    \E k \in Sweepers : \E t \in TabIds :
        /\ obs[k].done /\ Decided(sweep[k], t)
        /\ ~sweep[k].storedProt[t] /\ ~sweep[k].tabs[t].active
        /\ obs[k].unprotectedAt[t].before # Absent
        /\ obs[k].unprotectedAt[t].at - obs[k].unprotectedAt[t].before
               > sweep[k].timeoutMs
        /\ t \notin Evicted(k)
        /\ tabs[t].live

\* C3: a candidate that is unprotected, not active and has a stored
\* timestamp is evicted by a sweep run at time now if and only if
\* now - lastActive > unitToMs(unit) * timeout
C3_EvictedIffIdleBeyondTimeout ==
    \A k \in Sweepers : \A t \in TabIds :
        (/\ Decided(sweep[k], t)
         /\ ~sweep[k].storedProt[t] /\ ~sweep[k].tabs[t].active
         /\ sweep[k].storedTs[t] # Absent)
        => LET st == GetSettings(settings)
               beyond == sweep[k].now - sweep[k].storedTs[t]
                             > unitToMs(st.unit) * st.timeout
           IN /\ t \in obs[k].closeTab <=> beyond
              /\ obs[k].done =>
                    /\ t \in obs[k].appended <=> beyond
                    /\ t \in obs[k].removed <=> beyond

\* a completed sweep met a tab idle for exactly the timeout, which is still
\* open, and a tab idle for one millisecond more, which it closed
C3_Witness ==
    \E k \in Sweepers : \E t, u \in TabIds :
        LET s == sweep[k]
            ms == unitToMs(GetSettings(settings).unit)
                      * GetSettings(settings).timeout
        IN /\ obs[k].done /\ Decided(s, t) /\ Decided(s, u)
           /\ ~s.storedProt[t] /\ ~s.tabs[t].active
           /\ ~s.storedProt[u] /\ ~s.tabs[u].active
           /\ s.storedTs[t] # Absent /\ s.now - s.storedTs[t] = ms
           /\ s.storedTs[u] # Absent /\ s.now - s.storedTs[u] = ms + 1
           /\ tabs[t].live /\ t \notin Evicted(k)
           /\ ~tabs[u].live /\ u \in obs[k].removed

\* C8: right after a history append the stored history has at most
\* historyLimit entries when historyLimit is not -1, and one entry more
\* than before when historyLimit is -1
C8_AppendRespectsLimit ==
    last.op = "add" =>
        /\ closedTabs = last.after
        /\ last.historyLimit # -1 => Len(last.after) <= last.historyLimit
        /\ last.historyLimit = -1 => Len(last.after) = Len(last.before) + 1

\* an append to a history that already held historyLimit entries
C8_Witness ==
    /\ last.op = "add"
    /\ last.historyLimit = 2
    /\ Len(last.before) = last.historyLimit
    /\ Len(closedTabs) = last.historyLimit

\* C9: an append puts the new entry at index 0 and keeps the previous
\* entries in their order behind it; beyond the limit the tail is dropped
C9_AppendPrependsAndDropsTail ==
    last.op = "add" =>
        LET all == Len(last.before) + 1
            n == IF last.historyLimit # -1 /\ all > last.historyLimit
                 THEN last.historyLimit ELSE all
        IN /\ Len(last.after) = n
           /\ n >= 1 => last.after[1] = last.entry
           /\ \A j \in 2..n : last.after[j] = last.before[j - 1]
           /\ last.entry.id \notin {last.before[j].id :
                                       j \in 1..Len(last.before)}

\* an append that dropped the oldest of two entries and kept the newer one
\* behind the new entry
C9_Witness ==
    /\ last.op = "add"
    /\ Len(last.before) = 2 /\ Len(last.after) = 2
    /\ last.after[1] = last.entry
    /\ last.after[2] = last.before[1]
    /\ last.before[2] # last.before[1]

\* C10: removeExpiredTab(id) removes the entries with that id and no other,
\* keeps the order of the rest, changes nothing when no entry has the id,
\* and changes nothing when applied a second time
C10_RemoveExactIdempotent ==
    last.op = "remove" =>
        /\ closedTabs = last.after
        /\ last.after = SelectSeq(last.before, LAMBDA e : e.id # last.arg)
        /\ (\A j \in 1..Len(last.before) : last.before[j].id # last.arg)
               => last.after = last.before
        /\ (last.prevOp = "remove" /\ last.prevArg = last.arg)
               => last.after = last.before

\* the same id removed twice: the first removal took an entry out of a list
\* with other entries, the second changed nothing
C10_Witness ==
    /\ last.op = "remove"
    /\ last.prevOp = "remove" /\ last.prevArg = last.arg
    /\ last.prevChanged
    /\ closedTabs = last.before /\ Len(closedTabs) >= 1

\* the per-tab keys the janitor read whose id the tab query did not return
StaleKeys ==
    {key \in janitor.allKeys :
        key.prefix \in {"tab_", "protected_"}
        /\ key.id \notin janitor.openTabIds}

\* C11: when cleanUpStorage has completed, the keys it removed are exactly
\* the keys tab_<id> and protected_<id> it read whose id is not in the live
\* tab set returned by its tab query, for every id including 0
C11_JanitorRemovesExactlyStale ==
    janitor.pc = "done" => janitor.removed = StaleKeys

\* C12: when cleanUpStorage has completed, the history list and the settings
\* keys timeout, unit and historyLimit have the values it found
C12_JanitorKeepsOtherKeys ==
    janitor.pc = "done" =>
        /\ closedTabs = janitor.closedTabs
        /\ settings = janitor.settings

\* cleanUpStorage has removed both keys of a closed tab from a store that
\* holds a history entry and the three settings
C12_Witness ==
    /\ janitor.pc = "done"
    /\ {getTabKey(1), getProtectedKey(1)} \subseteq janitor.removed
    /\ closedTabs = <<OldEntry>>
    /\ DOMAIN settings = SettingsKeys

\* C13: with a stored unit that is not minutes, hours or days (the unit
\* conversion has no value for it) a sweep evicts no tab and appends no
\* history entry
C13_InvalidUnitEvictsNothing ==
    unitToMs(GetSettings(settings).unit) = -1 =>
        /\ \A k \in Sweepers : Evicted(k) = {}
        /\ closedTabs = <<>>

\* C15: at most one execution of checkTabs is in progress at any time (an
\* alarm that fires during a running sweep starts no second execution)
C15_AtMostOneSweep == Cardinality(Running) <= 1

\* C14: a failed close instruction does not take the history entry of the
\* candidate out of the list; a sweep in which a close failed has gone
\* through all its candidates when it returns, and the timestamps it staged
\* are in the store right after its last step
C14_CloseFailureIsBestEffort ==
    \A k \in Sweepers :
        /\ obs[k].rolledBack = {}
        /\ (obs[k].done /\ obs[k].failed # {}) =>
               /\ sweep[k].i = Len(sweep[k].tabsToCheck) + 1
               /\ \A t \in TabIds :
                      sweep[k].updates[t] # Absent
                          => obs[k].tsAfter[t] = sweep[k].updates[t]

\* a completed sweep whose close of a candidate failed: the history holds
\* the entry of that candidate, a later candidate was processed and its
\* staged timestamp is in the store
C14_Witness ==
    \E k \in Sweepers : \E t, u \in TabIds :
        LET s == sweep[k] IN
        /\ obs[k].done /\ t \in obs[k].failed
        /\ Fetched(s, u) /\ Pos(s, u) > Pos(s, t)
        /\ s.updates[u] = s.now /\ tabTs[u] = s.now
        /\ \E j \in 1..Len(closedTabs) : closedTabs[j].title = t

\* C16: an activation leaves tab_<id> at the activation time; a sweep that
\* started after the activation handler completed evicts the tab only if
\* timeoutMs has elapsed since the activation
C16_ActivationResetsClock ==
    \A t \in TabIds :
        /\ stamps[t].activatedAt # Absent
               => stamps[t].activatedTs = stamps[t].activatedAt
        /\ \A k \in Sweepers :
               (t \in Evicted(k) /\ obs[k].stamps[t].activatedAt # Absent)
               => sweep[k].now - obs[k].stamps[t].activatedAt
                      >= sweep[k].timeoutMs

\* C17: a sweep that started after a tab was pinned evicts the tab (unpinned
\* since) only if timeoutMs has elapsed since it was pinned
C17_PinResetsClock ==
    \A k \in Sweepers : \A t \in TabIds :
        (t \in Evicted(k) /\ obs[k].stamps[t].pinnedAt # Absent)
        => sweep[k].now - obs[k].stamps[t].pinnedAt >= sweep[k].timeoutMs

\* no handler is in progress
Quiescent ==
    /\ Running = {}
    /\ unprotecting = {}
    /\ janitor.pc \in {"idle", "done"}

\* C18: when a tab has been removed and no handler is in progress, the store
\* holds neither tab_<id> nor protected_<id> of that tab
C18_RemovedTabHasNoKeys ==
    \A t \in TabIds :
        (~tabs[t].live /\ Quiescent) => (tabTs[t] = Absent /\ ~prot[t])

\* C19: a sweep whose candidate set is empty returns when the tab query
\* resolves: it issues no bulk read, writes nothing to the store, changes no
\* tab_ key and closes no tab
C19_EmptyCandidatesNoIO ==
    \A k \in Sweepers :
        /\ sweep[k].pc \notin {"idle", "getSettings", "query"}
               => sweep[k].tabsToCheck # <<>>
        /\ (obs[k].done /\ sweep[k].tabsToCheck = <<>>) =>
               /\ ~obs[k].bulkRead /\ ~obs[k].wrote
               /\ obs[k].touched = {} /\ Evicted(k) = {}

\* a completed sweep found two open tabs, one pinned and one audible, and
\* nothing else
C19_Witness ==
    \E k \in Sweepers : \E t, u \in TabIds :
        /\ obs[k].done /\ sweep[k].tabsToCheck = <<>>
        /\ sweep[k].tabs[t].live /\ sweep[k].tabs[t].pinned
        /\ sweep[k].tabs[u].live /\ sweep[k].tabs[u].audible
        /\ ~sweep[k].tabs[u].pinned
        /\ ~obs[k].bulkRead

\* C20: in every reachable state with historyLimit not equal to -1 the
\* stored history holds at most historyLimit entries
C20_HistoryWithinLimit ==
    LET historyLimit == GetSettings(settings).historyLimit IN
    historyLimit # -1 => Len(closedTabs) <= historyLimit

\* the last click on save did not store its inputs
Rejected == click.result # "Settings saved." /\ settings = click.before

\* C21: a click on save with a timeout below 1, or with a historyLimit that
\* is 0 or below -1, leaves the stored settings unchanged; a click with a
\* timeout of at least 1 and historyLimit -1 stores both
C21_SaveRejectsInvalid ==
    click.result # "none" =>
        /\ (~click.timeout.nan /\ click.timeout.value < 1) => Rejected
        /\ (/\ ~click.historyLimit.nan
            /\ (click.historyLimit.value = 0 \/ click.historyLimit.value < -1))
               => Rejected
        /\ (/\ ~click.timeout.nan /\ click.timeout.value >= 1
            /\ ~click.historyLimit.nan /\ click.historyLimit.value = -1)
               => /\ click.result = "Settings saved."
                  /\ settings.timeout = click.timeout.value
                  /\ settings.historyLimit = -1

\* a click with timeout 2 and historyLimit 0 on stored settings with
\* timeout 1 was rejected for its limit
C21_Witness ==
    /\ click.result = "Invalid limit."
    /\ click.timeout = Num(2) /\ click.historyLimit = Num(0)
    /\ click.before.timeout = 1
    /\ settings = click.before

\* C22: without stored settings getSettings returns timeout 12, unit hours
\* and historyLimit 1000; a sweep computes a timeout of 12 hours and the
\* history append of an eviction reads the limit 1000
C22_DefaultsTwelveHours ==
    DOMAIN settings = {} =>
        /\ GetSettings(settings)
               = [timeout |-> 12, unit |-> "hours", historyLimit |-> 1000]
        /\ \A k \in Sweepers :
               /\ sweep[k].pc \notin {"idle", "getSettings"}
                      => sweep[k].timeoutMs = 12 * 60 * 60 * 1000
               /\ sweep[k].pc \in {"addGetExpired", "addSet", "remove"}
                      => sweep[k].historyLimit = 1000

C25_StartupLeavesLiveKeysOnly ==
    janitor.pc = "done" =>
        \A key \in AllKeys :
            key.prefix \in {"tab_", "protected_"}
                => key.id \in janitor.openTabIds

\* C26: a sweep whose bulk read fell between the two writes of an unprotect
\* of a candidate (flag removed, timestamp not yet set) does not evict that
\* candidate
C26_NoEvictionDuringUnprotect ==
    \A k \in Sweepers : \A t \in TabIds :
        t \in obs[k].midUnprotect => t \notin Evicted(k)

\* C27: a tab that was not protected in the bulk read of a sweep and for
\* which that sweep issued a close instruction had no protected_<id> in the
\* store when the instruction was issued
C27_ProtectedDuringSweepNotClosed ==
    \A k \in Sweepers : \A t \in TabIds :
        (t \in obs[k].removed /\ ~sweep[k].storedProt[t])
            => t \notin obs[k].removedProtected

\* C28: two sweeps that were in progress at the same time did not both
\* append a history entry for the same tab, nor both issue a close
\* instruction for it, and the history holds no two entries of one tab
C28_EvictedAtMostOnce ==
    /\ \A j, k \in Sweepers : \A t \in TabIds :
           j # k => /\ ~(t \in obs[j].appended /\ t \in obs[k].appended)
                    /\ ~(t \in obs[j].removed /\ t \in obs[k].removed)
    /\ \A i, j \in 1..Len(closedTabs) :
           i # j => closedTabs[i].title # closedTabs[j].title

\* C29: no sweep has closed a tab whose stored timestamp, when the close
\* was applied, was within timeoutMs of the clock
C29_ActiveDuringSweepNotClosed ==
    \A k \in Sweepers : obs[k].removedFresh = {}

\* C30: no step of a sweep has lowered the stored timestamp of an open tab
C30_TimestampNeverDecreases ==
    \A k \in Sweepers : obs[k].decreased = {}

\* C31: a tab that is no longer open has neither tab_<id> nor
\* protected_<id> in the store, also while handlers are in progress: no
\* handler writes a key of a tab after the removal handler of that tab
C31_NoKeyForRemovedTab ==
    \A t \in TabIds : ~tabs[t].live => (tabTs[t] = Absent /\ ~prot[t])

\* the ids of the entries of a history list
Ids(list) == {list[j].id : j \in 1..Len(list)}

\* with an unlimited history and no eviction in progress, every entry that
\* an eviction appended is in the history, unless it was removed or cleared
AppendedKept ==
    (Running = {} /\ GetSettings(settings).historyLimit = -1) =>
        \A id \in 1..nextId :
            \/ id \in Ids(closedTabs)
            \/ last.op = "remove" /\ last.arg = id
                                   /\ id \in Ids(last.before)
            \/ last.op = "clear" /\ id \in Ids(last.before)

\* C32: history updates are not lost when an eviction's append overlaps
\* with a removal or a clear on the options page: the appended entries are
\* kept, the removed entry does not come back and after a clear no entry
\* from before the clear is in the history
C32_HistoryUpdatesNotLost ==
    /\ AppendedKept
    /\ (last.op = "remove" /\ last.arg \in Ids(last.before))
           => last.arg \notin Ids(closedTabs)
    /\ last.op = "clear" => Ids(closedTabs) \cap Ids(last.before) = {}

\* C33: the stored history is ordered newest first: of two entries the one
\* at the lower index has the greater or equal closedAt
C33_HistoryNewestFirst ==
    \A i, j \in 1..Len(closedTabs) :
        i < j => closedTabs[i].closedAt >= closedTabs[j].closedAt

\* C34: every close instruction of a sweep was issued after a history write
\* for that tab had been applied; a tab whose history write failed is not
\* closed
C34_HistoryWrittenBeforeClose ==
    \A k \in Sweepers : obs[k].removed \subseteq obs[k].appended

\* C35: a sweep issues at most one read of tab_ and protected_ keys, for
\* exactly the keys of the open tabs of its query that are neither pinned
\* nor audible, and at most one write of tab_ keys, with exactly the staged
\* timestamps; it changes no tab_ key in any other way (the keys of a tab
\* it closed are removed by onRemoved)
C35_OneBulkReadOneBulkWrite ==
    \A k \in Sweepers :
        LET s == sweep[k]
            o == obs[k]
        IN /\ o.tabReads <= 1
           /\ o.tabWrites <= 1
           /\ o.bulkRead =>
                  {t \in TabIds : Fetched(s, t)} =
                      {t \in TabIds : /\ s.tabs[t].live
                                      /\ ~s.tabs[t].pinned
                                      /\ ~s.tabs[t].audible}
           /\ (o.tabWrites = 1 /\ ~o.writeFailed) => o.written = Staged(s)
           /\ o.touched \subseteq o.written \cup o.removed

\* a completed sweep over two candidates that closed one and staged the
\* timestamp of the other, with one read and one write
C35_Witness ==
    \E k \in Sweepers :
        /\ obs[k].done
        /\ Len(sweep[k].tabsToCheck) = 2
        /\ obs[k].tabReads = 1 /\ obs[k].tabWrites = 1
        /\ obs[k].removed # {} /\ obs[k].written # {}

\* the history entries of tab t
EntriesOf(t) == {j \in 1..Len(closedTabs) : closedTabs[j].title = t}

\* the close of t failed in the sweep before execution k, and execution k
\* has found t a candidate again, unprotected, not active and idle for more
\* than the timeout
Retried(k, t) ==
    LET s == sweep[k] IN
    /\ t \in obs[k].prevFailed
    /\ Decided(s, t)
    /\ ~s.storedProt[t] /\ ~s.tabs[t].active
    /\ StaleInRead(s, t)

\* C36: a tab whose close instruction failed and that is still open, idle
\* and neither pinned, audible, protected nor active at the next sweep is
\* selected for eviction again, and that sweep appends a further history
\* entry for it: with an unlimited history the tab then has two entries
C36_FailedCloseIsRetried ==
    \A k \in Sweepers : \A t \in TabIds :
        Retried(k, t) =>
            /\ t \in obs[k].closeTab
            /\ (t \in obs[k].appended
                /\ GetSettings(settings).historyLimit = -1)
                   => Cardinality(EntriesOf(t)) >= 2

\* the second sweep has appended a second entry for a tab that the host
\* refused to close in the first
C36_Witness ==
    \E k \in Sweepers : \E t \in TabIds :
        /\ Retried(k, t)
        /\ t \in obs[k].appended
        /\ Cardinality(EntriesOf(t)) = 2

ReadFailedSweep ==
    \E k \in Sweepers : obs[k].readFailed /\ obs[k].done

C39_LimitZeroDropsEverything ==
    GetSettings(settings).historyLimit = 0 =>
        \A k \in Sweepers :
            /\ obs[k].appended # {} => closedTabs = <<>>
            /\ obs[k].done =>
                   /\ obs[k].removed = obs[k].closeTab
                   /\ \A t \in obs[k].removed \ obs[k].failed :
                          ~tabs[t].live

\* a completed sweep that closed a tab and left the history empty, the
\* entry of an earlier eviction included
C39_Witness ==
    \E k \in Sweepers : \E t \in TabIds :
        /\ GetSettings(settings).historyLimit = 0
        /\ obs[k].done
        /\ t \in obs[k].removed /\ ~tabs[t].live
        /\ nextId > 1
        /\ closedTabs = <<>>

\* C40: a step that sets protected_<id> of a tab changes no other
\* protection flag, no tab_ key, neither the history nor the settings: the
\* timestamp the tab had before its protection is kept
C40_ProtectWritesFlagOnly ==
    [][\A t \in TabIds :
          (~prot[t] /\ prot'[t]) =>
              /\ tabTs' = tabTs
              /\ closedTabs' = closedTabs
              /\ settings' = settings
              /\ \A u \in TabIds \ {t} : prot'[u] = prot[u]]_vars

\* a protected tab whose timestamp is older than the clock
C40_Witness ==
    \E t \in TabIds :
        /\ prot[t]
        /\ tabTs[t] # Absent /\ tabTs[t] < now

====
